---- MODULE Spec2Model ----
(***************************************************************************)
(* pg_auto_failover: the pg_hba.conf editing functions of pghba.c and the  *)
(* registration / state functions declared in archiver.h and               *)
(* keeper_pg_init.h.                                                        *)
(*                                                                         *)
(* C strings are modelled as sequences of one-character strings, so that   *)
(* strstr, the newline test and the concatenations are computed on the     *)
(* characters, as the code computes them.                                  *)
(***************************************************************************)
EXTENDS Integers, Sequences, FiniteSets, TLC

\* ------------------------------------------------------------------ bounds

\* number of pieces the initial pg_hba.conf content is made of
MaxInitPieces == 3

\* number of calls (pghba_ensure_host_rule_exists or pghba_enable_lan_cidr)
\* one process makes
MaxCalls == 2

\* number of reconciliation runs (the first, and the re-invocations)
MaxRuns == 3

\* how far over the fixed maximum a topology snapshot may go
MaxExcess == 1

\* the length of the names and hosts given to the rendering functions
MaxStrLen == 3

\* ------------------------------------------------------------- characters

NL == "\n"

NULL == "NULL"

Digits == {"0", "1", "2", "3", "4", "5", "6", "7", "8", "9"}

HexDigits == Digits \cup {"a", "b", "c", "d", "e", "f", "A", "B", "C", "D", "E", "F"}

\* pghba.c:27
HBA_LINE_COMMENT ==
    <<" ", "#", " ", "A", "u", "t", "o", "-", "g", "e", "n", "e", "r", "a",
      "t", "e", "d", " ", "b", "y", " ", "p", "g", "_", "a", "u", "t", "o",
      "_", "f", "a", "i", "l", "o", "v", "e", "r">>

Str_skip == <<"s", "k", "i", "p">>

Str_trust == <<"t", "r", "u", "s", "t">>

Str_v4 == <<"1", ".", "2", ".", "3", ".", "4">>

Str_v6 == <<":", ":", "1">>

Str_cidr == <<"1", "0", ".", "0", ".", "0", ".", "0", "/", "8">>

Str_hostname == <<"d", "b">>

Str_quoted == <<"a", "\"", "b">>

\* ---------------------------------------------------------- C string helpers

Min(S) == CHOOSE x \in S : \A y \in S : x <= y

Count(s, c) == Cardinality({i \in 1..Len(s) : s[i] = c})

IsPrefix(s, t) == Len(s) <= Len(t) /\ SubSeq(t, 1, Len(s)) = s

\* the positions at which needle occurs in haystack
Occurrences(haystack, needle) ==
    {i \in 1..(Len(haystack) - Len(needle) + 1) :
        SubSeq(haystack, i, i + Len(needle) - 1) = needle}

\* the occurrences that begin at the start of the content or right after a newline
AnchoredOccurrences(haystack, needle) ==
    {i \in Occurrences(haystack, needle) : i = 1 \/ haystack[i - 1] = NL}

\* strstr(3): the position of the first occurrence, 0 for a NULL result
strstr(haystack, needle) ==
    IF Occurrences(haystack, needle) = {} THEN 0
    ELSE Min(Occurrences(haystack, needle))

\* the lines of a text: the newline-terminated segments, and the last segment
\* when it is not terminated
RECURSIVE SplitLines(_)
SplitLines(s) ==
    IF s = <<>> THEN <<>>
    ELSE IF \E i \in 1..Len(s) : s[i] = NL
         THEN LET k == Min({i \in 1..Len(s) : s[i] = NL})
              IN  <<SubSeq(s, 1, k - 1)>> \o SplitLines(SubSeq(s, k + 1, Len(s)))
         ELSE <<s>>

\* ------------------------------------------------------------ rendering

\* pghba.h: SKIP_HBA, the --skip-pg-hba sentinel
SKIP_HBA(authenticationScheme) == authenticationScheme = Str_skip

\* ipaddr.c: ip_address_type
IsIPv4Literal(host) ==
    /\ Len(host) > 0
    /\ \A i \in 1..Len(host) : host[i] \in Digits \cup {"."}
    /\ Count(host, ".") = 3
    /\ host[1] # "." /\ host[Len(host)] # "."
    /\ \A i \in 1..(Len(host) - 1) : ~(host[i] = "." /\ host[i + 1] = ".")

IsIPv6Literal(host) ==
    /\ Len(host) > 0
    /\ \A i \in 1..Len(host) : host[i] \in HexDigits \cup {":"}
    /\ Count(host, ":") >= 2

ip_address_type(host) ==
    IF IsIPv4Literal(host) THEN "IPTYPE_V4"
    ELSE IF IsIPv6Literal(host) THEN "IPTYPE_V6"
    ELSE "IPTYPE_NONE"

\* pghba.c:253-277
RECURSIVE EscapeBody(_)
EscapeBody(hbaString) ==
    IF hbaString = <<>> THEN <<>>
    ELSE (IF Head(hbaString) = "\"" THEN <<"\"">> ELSE <<>>)
         \o <<Head(hbaString)>> \o EscapeBody(Tail(hbaString))

escape_hba_string_NoDoubling(hbaString) == <<"\"">> \o hbaString \o <<"\"">>

escape_hba_string(hbaString) == <<"\"">> \o EscapeBody(hbaString) \o <<"\"">>

\* pghba.c:180-210
append_database_field(databaseType, databaseName) ==
    CASE databaseType = "HBA_DATABASE_ALL" -> <<"a", "l", "l">>
      [] databaseType = "HBA_DATABASE_REPLICATION" ->
            <<"r", "e", "p", "l", "i", "c", "a", "t", "i", "o", "n">>
      [] OTHER -> escape_hba_string(databaseName)

\* pghba.c:218-242
append_hostname_or_cidr_AlwaysV4(host) == host \o <<"/", "3", "2">>

append_hostname_or_cidr(host) ==
    CASE ip_address_type(host) = "IPTYPE_V4" -> host \o <<"/", "3", "2">>
      [] ip_address_type(host) = "IPTYPE_V6" -> host \o <<"/", "1", "2", "8">>
      [] OTHER -> host

\* pghba.c:64-90: the line built in hbaLineBuffer
HbaLine(ssl, databaseType, database, username, host, authenticationScheme) ==
    (IF ssl THEN <<"h", "o", "s", "t", "s", "s", "l", " ">>
            ELSE <<"h", "o", "s", "t", " ">>)
    \o append_database_field(databaseType, database)
    \o <<" ">>
    \o (IF username # NULL THEN escape_hba_string(username) \o <<" ">>
                           ELSE <<"a", "l", "l", " ">>)
    \o append_hostname_or_cidr(host)
    \o <<" ">> \o authenticationScheme

RuleLine(r) == HbaLine(r.ssl, r.databaseType, r.database, r.username, r.host, r.auth)

\* pghba.c:120-127: the test that decides the line is already there
LineFound_NoAnchor(currentHbaContents, line) ==
    strstr(currentHbaContents, line) # 0

LineFound(currentHbaContents, line) ==
    LET includeLine == strstr(currentHbaContents, line)
    IN  includeLine # 0 /\ (includeLine = 1 \/ currentHbaContents[includeLine - 1] = NL)

\* pghba.c:143-145: the new contents of the file
NewHbaContents_LineOnly(currentHbaContents, line) ==
    line \o HBA_LINE_COMMENT \o <<NL>>

NewHbaContents_Prepend(currentHbaContents, line) ==
    line \o HBA_LINE_COMMENT \o <<NL>> \o currentHbaContents

NewHbaContents(currentHbaContents, line) ==
    currentHbaContents \o line \o HBA_LINE_COMMENT \o <<NL>>

\* pghba.c:159: what the file holds after write_file has succeeded, given what
\* it held: the new contents, built from the contents that were read
WrittenContents_AppendOnDisk(onDisk, currentHbaContents, line) ==
    NewHbaContents(onDisk, line)

WrittenContents(onDisk, currentHbaContents, line) ==
    NewHbaContents(currentHbaContents, line)

\* a C bool as it is kept in res and ensRes, which hold NULL before the return
Bool(b) == IF b THEN "true" ELSE "false"

\* pghba.c:322: what pghba_enable_lan_cidr returns when no local address is found
AddressFailureResult_Fatal(authenticationScheme) == FALSE

AddressFailureResult(authenticationScheme) ==
    IF SKIP_HBA(authenticationScheme) THEN TRUE ELSE FALSE

\* pghba.c:331: what pghba_enable_lan_cidr returns when the CIDR is not found
CidrFailureResult(authenticationScheme) ==
    IF SKIP_HBA(authenticationScheme) THEN TRUE ELSE FALSE

\* pghba.c:371-372: the reload is asked for a live server, unless skipping
NeedsReload_NotSkipOnly(pgdata, authenticationScheme) ==
    ~SKIP_HBA(authenticationScheme)

NeedsReload_LiveOnly(pgdata, authenticationScheme) == pgdata = NULL

NeedsReload(pgdata, authenticationScheme) ==
    pgdata = NULL /\ ~SKIP_HBA(authenticationScheme)

\* pghba.c:341: the path is asked of the live server when no pgdata is given
NeedsServerPath(pgdata) == pgdata = NULL

\* ------------------------------------------------------------------ inputs

Procs == {"p1", "p2"}

\* the rules pghba_ensure_host_rule_exists is called with
Rules ==
    { [ssl |-> FALSE, databaseType |-> "HBA_DATABASE_ALL", database |-> NULL,
       username |-> NULL, host |-> Str_cidr, auth |-> Str_trust, pgdata |-> NULL],
      [ssl |-> TRUE, databaseType |-> "HBA_DATABASE_DBNAME", database |-> Str_quoted,
       username |-> Str_hostname, host |-> Str_v4, auth |-> Str_trust, pgdata |-> NULL],
      [ssl |-> FALSE, databaseType |-> "HBA_DATABASE_ALL", database |-> NULL,
       username |-> NULL, host |-> Str_cidr, auth |-> Str_skip, pgdata |-> NULL] }

\* the arguments pghba_enable_lan_cidr is called with (host is the hostname)
LanArgs ==
    { [ssl |-> FALSE, databaseType |-> "HBA_DATABASE_ALL", database |-> NULL,
       username |-> NULL, host |-> Str_hostname, auth |-> a, pgdata |-> d] :
      a \in {Str_trust, Str_skip}, d \in {NULL, "pgdata"} }

\* what the network and the server answer in a call of pghba_enable_lan_cidr:
\* no local address, no CIDR, no hba_file path, or all of them found
LanOutcomes == {"no_address", "no_cidr", "no_path", "resolved"}

\* the calls to the outside, each with its success
Ev_findAddress(ok) == <<"findHostnameLocalAddress", ok>>

Ev_fetchCIDR(ok) == <<"fetchLocalCIDR", ok>>

Ev_getPath(ok) == <<"pgsql_get_hba_file_path", ok>>

Ev_read(ok) == <<"read_file", ok>>

Ev_write(ok) == <<"write_file", ok>>

Ev_reload(ok) == <<"pgsql_reload_conf", ok>>

NoArgs ==
    [ssl |-> FALSE, databaseType |-> "HBA_DATABASE_ALL", database |-> NULL,
     username |-> NULL, host |-> <<>>, auth |-> <<>>, pgdata |-> NULL]

\* the pieces an initial pg_hba.conf is made of: rules, other text, newlines
Pieces ==
    {RuleLine(r) : r \in {x \in Rules : ~SKIP_HBA(x.auth)}} \cup {<<"x">>, <<NL>>}

RECURSIVE Contents(_)
Contents(n) ==
    IF n = 0 THEN {<<>>}
    ELSE Contents(n - 1) \cup {c \o q : c \in Contents(n - 1), q \in Pieces}

\* this node, as it registers: CreateArchiverNodeOpts (archiver.h:57-62)
ThisNode == [name |-> "node_a", formation |-> "default", groupId |-> 0]

\* the records of other nodes the coordinator may hold already
OtherNodes ==
    { [name |-> "node_b", formation |-> "default", groupId |-> 0],
      [name |-> "node_c", formation |-> "default", groupId |-> 1] }

\* the nodeId of a NodeState that holds none
NoNodeId == 0

\* the arguments of the grant the engine asks for
SyncArgs ==
    { [ssl |-> FALSE, databaseType |-> "HBA_DATABASE_ALL", database |-> NULL,
       username |-> NULL, host |-> Str_hostname, auth |-> Str_trust, pgdata |-> d] :
      d \in {NULL, "pgdata"} }

\* ------------------------------------------------------------------- state
\*
\* A call is a sequence of steps, one for each access to the file or to the
\* server, so that the steps of two processes can interleave.  read_file and
\* write_file (file_utils.c) may fail; a write_file that fails leaves the file
\* as it was (the rewrite is all-or-nothing).  The allocation failures
\* (pghba.c:58, 92, 136, 151) are left out.

VARIABLES
    file,       \* the contents of pg_hba.conf
    pc,         \* each process's position: idle, read, write, reload, done
    kind,       \* the function the process was called with: ensure or lan
    args,       \* its arguments
    line,       \* hbaLineBuffer
    buf,        \* currentHbaContents
    res,        \* the value the call returned
    ensRes,     \* the value pghba_ensure_host_rule_exists returned in the call
    trace,      \* the calls to the outside the call made, in order
    calls,      \* the number of calls the process made
    pre,        \* the contents of the file when the call began
    prev,       \* the process's previous call: its kind, arguments and result
    running,    \* a reconciliation run is in progress
    engState,   \* the state of the reconciliation engine
    nodeState,  \* the persisted NodeState: its nodeId, NoNodeId when absent
    pendingId,  \* the nodeId a register call returned, not yet persisted
    coord,      \* the registration records the coordinator holds
    nextId,     \* the next nodeId the coordinator gives
    regReturned,\* the nodeIds the register calls of this node returned
    regCalls,   \* the register calls of the current run
    regAccepted,\* the register calls of this node the coordinator accepted
    resumed,    \* the current run found a persisted NodeState
    runs,       \* the number of runs so far
    file0,      \* the contents of pg_hba.conf before the first call
    fetchedId,  \* the nodeId the run fetched from the coordinator, if any
    engError,   \* the error the engine reported: none, StateIntegrityError
    formations, \* Archiver.formations, the FormationArray
    offered,    \* the topology snapshot decoded last
    adopted,    \* the FormationArray before that snapshot was decoded
    topoError,  \* what decoding it reported: none, ok, ValidationError
    rIn,        \* the string given to a rendering function
    rOp,        \* the rendering function applied: none, host, escape, line
    rOut        \* what it wrote

hbaVars == <<file, pc, kind, args, line, buf, res, ensRes, trace, calls, pre, prev>>

engVars == <<running, engState, nodeState, pendingId, coord, nextId, regReturned,
             regCalls, regAccepted, resumed, runs>>

auxVars == <<file0, fetchedId, engError, formations, offered, adopted, topoError,
             rIn, rOp, rOut>>

vars == <<hbaVars, engVars, auxVars>>

NoCall == [kind |-> "none", args |-> NoArgs, res |-> NULL]

HbaInit ==
    /\ file \in Contents(MaxInitPieces)
    /\ pc = [p \in Procs |-> "idle"]
    /\ kind = [p \in Procs |-> "none"]
    /\ args = [p \in Procs |-> NoArgs]
    /\ line = [p \in Procs |-> <<>>]
    /\ buf = [p \in Procs |-> <<>>]
    /\ res = [p \in Procs |-> NULL]
    /\ ensRes = [p \in Procs |-> NULL]
    /\ trace = [p \in Procs |-> <<>>]
    /\ calls = [p \in Procs |-> 0]
    /\ pre = [p \in Procs |-> <<>>]
    /\ prev = [p \in Procs |-> NoCall]

\* the engine before its first run, the coordinator holding the given records
EngInit(records) ==
    /\ running = FALSE
    /\ engState = "UNREGISTERED"
    /\ nodeState = NoNodeId
    /\ pendingId = NoNodeId
    /\ coord = records
    /\ nextId = 1 + Cardinality(records)
    /\ regReturned = {}
    /\ regCalls = 0
    /\ regAccepted = 0
    /\ resumed = FALSE
    /\ runs = 0

\* the parts of the state a specification does not use
IdentityInit == fetchedId = NoNodeId /\ engError = "none"

TopologyInit ==
    /\ formations = <<>> /\ offered = <<>> /\ adopted = <<>>
    /\ topoError = "none"

RenderInit ==
    /\ rIn = [name |-> <<>>, host |-> <<>>]
    /\ rOp = "none" /\ rOut = <<>>

AuxInit == file0 = file /\ IdentityInit /\ TopologyInit /\ RenderInit

Init == HbaInit /\ EngInit({}) /\ AuxInit

\* a call begins: what every entry point records
BeginCall(p, k, a) ==
    /\ pc[p] \in {"idle", "done"}
    /\ calls[p] < MaxCalls
    /\ calls' = [calls EXCEPT ![p] = @ + 1]
    /\ kind' = [kind EXCEPT ![p] = k]
    /\ args' = [args EXCEPT ![p] = a]
    /\ pre' = [pre EXCEPT ![p] = file]
    /\ prev' = [prev EXCEPT ![p] = [kind |-> kind[p], args |-> args[p], res |-> res[p]]]
    /\ buf' = [buf EXCEPT ![p] = <<>>]

\* pghba.c:360-378: pghba_enable_lan_cidr after pghba_ensure_host_rule_exists
\* returned v; pghba.c:108,117,131,163,171 for a direct call
EnsureReturns(p, k, a, v, tr) ==
    /\ ensRes' = [ensRes EXCEPT ![p] = Bool(v)]
    /\ trace' = [trace EXCEPT ![p] = tr]
    /\ IF k = "lan" /\ v /\ NeedsReload(a.pgdata, a.auth)
       THEN /\ pc' = [pc EXCEPT ![p] = "reload"]
            /\ res' = [res EXCEPT ![p] = NULL]
       ELSE /\ pc' = [pc EXCEPT ![p] = "done"]
            /\ res' = [res EXCEPT ![p] = Bool(v)]

\* pghba.c:44-112: the line is built; with the skip sentinel the function
\* returns true here, otherwise it goes on to read the file
EnsureEnter(p, k, a, l, tr) ==
    /\ line' = [line EXCEPT ![p] = l]
    /\ IF SKIP_HBA(a.auth)
       THEN EnsureReturns(p, k, a, TRUE, tr)
       ELSE /\ pc' = [pc EXCEPT ![p] = "read"]
            /\ res' = [res EXCEPT ![p] = NULL]
            /\ ensRes' = [ensRes EXCEPT ![p] = NULL]
            /\ trace' = [trace EXCEPT ![p] = tr]

\* pghba.c:43-112: a call of pghba_ensure_host_rule_exists
CallEnsure(p) ==
    \E r \in Rules :
        /\ BeginCall(p, "ensure", r)
        /\ EnsureEnter(p, "ensure", r, RuleLine(r), <<>>)
        /\ UNCHANGED file

\* pghba.c:297-361: a call of pghba_enable_lan_cidr, up to the reading of the file
LanCall(p, a, o) ==
        /\ BeginCall(p, "lan", a)
        /\ UNCHANGED file
        /\ IF o = "no_address"
           THEN /\ pc' = [pc EXCEPT ![p] = "done"]
                /\ res' = [res EXCEPT ![p] = Bool(AddressFailureResult(a.auth))]
                /\ trace' = [trace EXCEPT ![p] = <<Ev_findAddress(FALSE)>>]
                /\ ensRes' = [ensRes EXCEPT ![p] = NULL]
                /\ line' = [line EXCEPT ![p] = <<>>]
           ELSE IF o = "no_cidr"
           THEN /\ pc' = [pc EXCEPT ![p] = "done"]
                /\ res' = [res EXCEPT ![p] = Bool(CidrFailureResult(a.auth))]
                /\ trace' = [trace EXCEPT ![p] =
                                <<Ev_findAddress(TRUE), Ev_fetchCIDR(FALSE)>>]
                /\ ensRes' = [ensRes EXCEPT ![p] = NULL]
                /\ line' = [line EXCEPT ![p] = <<>>]
           ELSE IF NeedsServerPath(a.pgdata) /\ o = "no_path"
           THEN /\ pc' = [pc EXCEPT ![p] = "done"]
                /\ res' = [res EXCEPT ![p] = Bool(FALSE)]
                /\ trace' = [trace EXCEPT ![p] =
                                <<Ev_findAddress(TRUE), Ev_fetchCIDR(TRUE),
                                  Ev_getPath(FALSE)>>]
                /\ ensRes' = [ensRes EXCEPT ![p] = NULL]
                /\ line' = [line EXCEPT ![p] = <<>>]
           ELSE EnsureEnter(p, "lan", a,
                    HbaLine(a.ssl, a.databaseType, a.database, a.username,
                            Str_cidr, a.auth),
                    <<Ev_findAddress(TRUE), Ev_fetchCIDR(TRUE)>>
                    \o (IF NeedsServerPath(a.pgdata)
                        THEN <<Ev_getPath(TRUE)>> ELSE <<>>))

CallLan(p) == \E a \in LanArgs, o \in LanOutcomes : LanCall(p, a, o)

\* pghba.c:114-118, 159-164: what pghba_ensure_host_rule_exists returns when
\* read_file or write_file fails
IOFailureResult_Ignored == TRUE

IOFailureResult == FALSE

\* pghba.c:114-132: read_file, and the search for the line
ReadFile(p) ==
    /\ pc[p] = "read"
    /\ UNCHANGED <<file, kind, args, line, calls, pre, prev>>
    /\ \E ok \in BOOLEAN :
        IF ~ok
        THEN /\ EnsureReturns(p, kind[p], args[p], IOFailureResult,
                              Append(trace[p], Ev_read(ok)))
             /\ UNCHANGED buf
        ELSE /\ buf' = [buf EXCEPT ![p] = file]
             /\ IF LineFound(file, line[p])
                THEN EnsureReturns(p, kind[p], args[p], TRUE, Append(trace[p], Ev_read(ok)))
                ELSE /\ pc' = [pc EXCEPT ![p] = "write"]
                     /\ trace' = [trace EXCEPT ![p] = Append(@, Ev_read(ok))]
                     /\ UNCHANGED <<res, ensRes>>

\* pghba.c:134-171: the new contents are built and written
WriteFile(p) ==
    /\ pc[p] = "write"
    /\ UNCHANGED <<kind, args, line, buf, calls, pre, prev>>
    /\ \E ok \in BOOLEAN :
        /\ file' = IF ok THEN WrittenContents(file, buf[p], line[p]) ELSE file
        /\ EnsureReturns(p, kind[p], args[p], ok \/ IOFailureResult,
                         Append(trace[p], Ev_write(ok)))

\* pghba.c:371-378: pgsql_reload_conf
ReloadConf(p) ==
    /\ pc[p] = "reload"
    /\ UNCHANGED <<file, kind, args, line, buf, ensRes, calls, pre, prev>>
    /\ \E ok \in BOOLEAN :
        /\ res' = [res EXCEPT ![p] = Bool(ok)]
        /\ pc' = [pc EXCEPT ![p] = "done"]
        /\ trace' = [trace EXCEPT ![p] = Append(@, Ev_reload(ok))]

\* one process edits the file, no other writer
Next ==
    \/ CallEnsure("p1") /\ UNCHANGED <<engVars, auxVars>>
    \/ CallLan("p1") /\ UNCHANGED <<engVars, auxVars>>
    \/ ReadFile("p1") /\ UNCHANGED <<engVars, auxVars>>
    \/ WriteFile("p1") /\ UNCHANGED <<engVars, auxVars>>
    \/ ReloadConf("p1") /\ UNCHANGED <<engVars, auxVars>>

Spec == Init /\ [][Next]_vars

\* -------------------------------------------------- reconciliation engine

\* the coordinator's register(nodeName, formation, group): a node that is
\* registered already keeps its record, another gets a record with a new nodeId
MonitorRegister_AlwaysNew(records, node, id) ==
    records \cup {[node |-> node, nodeId |-> id]}

MonitorRegister(records, node, id) ==
    IF \E r \in records : r.node = node THEN records
    ELSE records \cup {[node |-> node, nodeId |-> id]}

\* the nodeIds the coordinator holds for the node
MonitorNodeIds(records, node) == {r.nodeId : r \in {x \in records : x.node = node}}

\* the state a run enters at, given the NodeState that archiver_load_state found
EntryState_AlwaysRegister(loaded) == "REGISTERING"

EntryState(loaded) ==
    IF loaded = NoNodeId THEN "REGISTERING" ELSE "REGISTERED-PENDING-SYNC"

\* NodeState.reconcile: an absent nodeId adopts the fetched one, a present one
\* is never replaced
Reconcile_Overwrite(current, fetched) == fetched

Reconcile(current, fetched) == IF current = NoNodeId THEN fetched ELSE current

\* keeper_pg_init: a run begins, loading the persisted NodeState
keeper_pg_init ==
    /\ ~running /\ runs < MaxRuns /\ engState # "FAILED"
    /\ running' = TRUE
    /\ runs' = runs + 1
    /\ regCalls' = 0
    /\ pendingId' = NoNodeId
    /\ resumed' = (nodeState # NoNodeId)
    /\ engState' = EntryState(nodeState)
    /\ pc' = [pc EXCEPT !["p1"] = "idle"]
    /\ UNCHANGED <<file, kind, args, line, buf, res, ensRes, trace, calls, pre, prev>>
    /\ UNCHANGED <<nodeState, coord, nextId, regReturned, regAccepted>>

\* archiver_register_and_init: the register call; the coordinator accepts it
\* and the reply arrives, or the reply is lost (a timeout), or the call does
\* not reach the coordinator, or the coordinator rejects it
archiver_register_and_init ==
    /\ running /\ engState = "REGISTERING" /\ pendingId = NoNodeId
    /\ regCalls' = regCalls + 1
    /\ UNCHANGED <<hbaVars, nodeState, resumed, runs>>
    /\ \E o \in {"accepted", "reply_lost", "not_sent", "rejected"} :
        /\ IF o \in {"accepted", "reply_lost"}
           THEN /\ coord' = MonitorRegister(coord, ThisNode, nextId)
                /\ nextId' = IF coord' = coord THEN nextId ELSE nextId + 1
                /\ regAccepted' = regAccepted + 1
           ELSE UNCHANGED <<coord, nextId, regAccepted>>
        /\ IF o = "accepted"
           THEN /\ \E id \in MonitorNodeIds(coord', ThisNode) :
                      /\ pendingId' = id
                      /\ regReturned' = regReturned \cup {id}
                /\ UNCHANGED <<running, engState>>
           ELSE /\ UNCHANGED <<pendingId, regReturned>>
                /\ running' = FALSE
                /\ engState' = IF o = "rejected" THEN "FAILED" ELSE engState

\* archiver_update_state, archiver_store_state: the nodeId is persisted, and
\* the engine goes on to the access grant
archiver_update_state ==
    /\ running /\ engState = "REGISTERING" /\ pendingId # NoNodeId
    /\ nodeState' = Reconcile(nodeState, pendingId)
    /\ pendingId' = NoNodeId
    /\ engState' = "REGISTERED-PENDING-SYNC"
    /\ UNCHANGED <<hbaVars, running, coord, nextId, regReturned, regCalls,
                   regAccepted, resumed, runs>>

\* the run is interrupted: what the process held in memory is lost
Interrupt ==
    /\ running
    /\ running' = FALSE
    /\ pendingId' = NoNodeId
    /\ pc' = [pc EXCEPT !["p1"] = "idle"]
    /\ UNCHANGED <<file, kind, args, line, buf, res, ensRes, trace, calls, pre, prev>>
    /\ UNCHANGED <<engState, nodeState, coord, nextId, regReturned, regCalls,
                   regAccepted, resumed, runs>>

\* keeper_pg_init_continue: the access grant, pghba_enable_lan_cidr
keeper_pg_init_continue ==
    /\ running /\ engState = "REGISTERED-PENDING-SYNC" /\ pc["p1"] = "idle"
    /\ \E a \in SyncArgs, o \in LanOutcomes : LanCall("p1", a, o)
    /\ UNCHANGED engVars

\* the steps of the grant in progress
GrantRead ==
    /\ running /\ engState = "REGISTERED-PENDING-SYNC"
    /\ ReadFile("p1")
    /\ UNCHANGED engVars

GrantWrite ==
    /\ running /\ engState = "REGISTERED-PENDING-SYNC"
    /\ WriteFile("p1")
    /\ UNCHANGED engVars

GrantReload ==
    /\ running /\ engState = "REGISTERED-PENDING-SYNC"
    /\ ReloadConf("p1")
    /\ UNCHANGED engVars

\* the grant has returned: SYNCHRONIZED when it returned true, FAILED otherwise
SyncDone ==
    /\ running /\ engState = "REGISTERED-PENDING-SYNC" /\ pc["p1"] = "done"
    /\ engState' = IF res["p1"] = "true" THEN "SYNCHRONIZED" ELSE "FAILED"
    /\ running' = FALSE
    /\ UNCHANGED <<hbaVars, nodeState, pendingId, coord, nextId, regReturned,
                   regCalls, regAccepted, resumed, runs>>

InitEngine ==
    /\ HbaInit /\ file \in Contents(1) /\ AuxInit
    /\ \E others \in SUBSET OtherNodes :
          EngInit({[node |-> n, nodeId |-> Cardinality({m \in others : m.groupId <= n.groupId})] :
                   n \in others})

NextEngine ==
    \/ keeper_pg_init /\ UNCHANGED auxVars
    \/ archiver_register_and_init /\ UNCHANGED auxVars
    \/ archiver_update_state /\ UNCHANGED auxVars
    \/ Interrupt /\ UNCHANGED auxVars
    \/ keeper_pg_init_continue /\ UNCHANGED auxVars
    \/ GrantRead /\ UNCHANGED auxVars
    \/ GrantWrite /\ UNCHANGED auxVars
    \/ GrantReload /\ UNCHANGED auxVars
    \/ SyncDone /\ UNCHANGED auxVars

SpecEngine == InitEngine /\ [][NextEngine]_vars

\* ------------------------------------------- the engine, identity reconciled
\*
\* A run that finds a persisted NodeState fetches the coordinator's view of
\* this node and reconciles the two before it grants access; the coordinator
\* may by then report another identity for the node.

topoVars == <<formations, offered, adopted, topoError>>

renderVars == <<rIn, rOp, rOut>>

\* NodeState.reconcile reports a configuration-integrity error: the persisted
\* nodeId is present and differs from the fetched one
ReconcileError(current, fetched) == current # NoNodeId /\ current # fetched

\* the coordinator now reports this node under a new nodeId (the node was
\* dropped and created again there)
MonitorReplaceNode ==
    /\ nextId <= MaxRuns + Cardinality(OtherNodes) + 1
    /\ \E r \in {x \in coord : x.node = ThisNode} :
          /\ r.nodeId \in regReturned \/ r.nodeId = nodeState
          /\ coord' = (coord \ {r}) \cup {[node |-> ThisNode, nodeId |-> nextId]}
    /\ nextId' = nextId + 1
    /\ UNCHANGED <<hbaVars, running, engState, nodeState, pendingId, regReturned,
                   regCalls, regAccepted, resumed, runs>>

\* the run compares the NodeState it loaded against the freshly fetched view
NodeState_reconcile ==
    /\ running /\ resumed /\ engState = "REGISTERED-PENDING-SYNC"
    /\ pc["p1"] = "idle" /\ fetchedId = NoNodeId
    /\ \E fetched \in MonitorNodeIds(coord, ThisNode) :
          /\ fetchedId' = fetched
          /\ nodeState' = Reconcile(nodeState, fetched)
          /\ IF ReconcileError(nodeState, fetched)
             THEN /\ engError' = "StateIntegrityError"
                  /\ engState' = "FAILED"
                  /\ running' = FALSE
             ELSE UNCHANGED <<engError, engState, running>>
    /\ UNCHANGED <<hbaVars, pendingId, coord, nextId, regReturned, regCalls,
                   regAccepted, resumed, runs>>
    /\ UNCHANGED <<file0, topoVars, renderVars>>

\* the grant begins once a loaded NodeState has been reconciled
IdentityContinue ==
    /\ resumed => fetchedId = nodeState
    /\ keeper_pg_init_continue

NextIdentity ==
    \/ keeper_pg_init /\ fetchedId' = NoNodeId
                      /\ UNCHANGED <<engError, file0, topoVars, renderVars>>
    \/ archiver_register_and_init /\ UNCHANGED auxVars
    \/ archiver_update_state /\ UNCHANGED auxVars
    \/ Interrupt /\ UNCHANGED auxVars
    \/ MonitorReplaceNode /\ UNCHANGED auxVars
    \/ NodeState_reconcile
    \/ IdentityContinue /\ UNCHANGED auxVars
    \/ GrantRead /\ UNCHANGED auxVars
    \/ GrantWrite /\ UNCHANGED auxVars
    \/ GrantReload /\ UNCHANGED auxVars
    \/ SyncDone /\ UNCHANGED auxVars

SpecIdentity == InitEngine /\ [][NextIdentity]_vars

\* ------------------------------------------------------- two processes
\*
\* The agent and an operator's command edit the same file: each makes one
\* call, the steps of the two calls interleaved in any order; once both have
\* returned, each may run pghba_ensure_host_rule_exists for its line again,
\* one such pass at a time.

\* the rules and the grants that do not carry the skip sentinel
ConcRules == {r \in Rules : ~SKIP_HBA(r.auth)}

ConcLanArgs == {a \in LanArgs : ~SKIP_HBA(a.auth)}

\* the files the two processes begin with: empty, one unterminated line, one
\* terminated line, a line that holds the second rule after its first
\* character, a file that holds the first rule as its only line
ConcFiles ==
    LET l1 == HbaLine(FALSE, "HBA_DATABASE_ALL", NULL, NULL, Str_cidr, Str_trust)
        l2 == HbaLine(TRUE, "HBA_DATABASE_DBNAME", Str_quoted, Str_hostname,
                      Str_v4, Str_trust)
    IN  {<<>>, <<"x">>, <<"x", NL>>, <<"x">> \o l2 \o <<NL>>, l1 \o <<NL>>}

Other(p) == CHOOSE q \in Procs : q # p

\* the process is not in the middle of a further pass
NotInPass(q) == calls[q] <= 1 \/ pc[q] \in {"idle", "done"}

\* the arguments pghba_ensure_host_rule_exists was given in the call of p
EnsureArgs(p) ==
    IF kind[p] = "lan" THEN [args[p] EXCEPT !.host = Str_cidr] ELSE args[p]

ConcEnsure(p) ==
    /\ calls[p] = 0 /\ NotInPass(Other(p))
    /\ \E r \in ConcRules :
          /\ BeginCall(p, "ensure", r)
          /\ EnsureEnter(p, "ensure", r, RuleLine(r), <<>>)
    /\ UNCHANGED file

ConcLan(p) ==
    /\ calls[p] = 0 /\ NotInPass(Other(p))
    /\ \E a \in ConcLanArgs, o \in LanOutcomes : LanCall(p, a, o)

ConcRead(p) == NotInPass(Other(p)) /\ ReadFile(p)

ConcWrite(p) == NotInPass(Other(p)) /\ WriteFile(p)

ConcReload(p) == NotInPass(Other(p)) /\ ReloadConf(p)

\* a further pass of pghba_ensure_host_rule_exists for the line of p begins
EnsureAgain(p) ==
    /\ calls[p] >= 1 /\ pc[p] = "done" /\ ensRes[p] # NULL
    /\ calls[Other(p)] >= 1 /\ pc[Other(p)] = "done"
    /\ BeginCall(p, "ensure", EnsureArgs(p))
    /\ EnsureEnter(p, "ensure", EnsureArgs(p), RuleLine(EnsureArgs(p)), <<>>)
    /\ UNCHANGED file

InitConc == HbaInit /\ file \in ConcFiles /\ EngInit({}) /\ AuxInit

NextConc ==
    \/ ConcEnsure("p1") /\ UNCHANGED <<engVars, auxVars>>
    \/ ConcEnsure("p2") /\ UNCHANGED <<engVars, auxVars>>
    \/ ConcLan("p1") /\ UNCHANGED <<engVars, auxVars>>
    \/ ConcLan("p2") /\ UNCHANGED <<engVars, auxVars>>
    \/ ConcRead("p1") /\ UNCHANGED <<engVars, auxVars>>
    \/ ConcRead("p2") /\ UNCHANGED <<engVars, auxVars>>
    \/ ConcWrite("p1") /\ UNCHANGED <<engVars, auxVars>>
    \/ ConcWrite("p2") /\ UNCHANGED <<engVars, auxVars>>
    \/ ConcReload("p1") /\ UNCHANGED <<engVars, auxVars>>
    \/ ConcReload("p2") /\ UNCHANGED <<engVars, auxVars>>
    \/ EnsureAgain("p1") /\ UNCHANGED <<engVars, auxVars>>
    \/ EnsureAgain("p2") /\ UNCHANGED <<engVars, auxVars>>

SpecConc == InitConc /\ [][NextConc]_vars

\* ------------------------------------------------- the rendering functions
\*
\* The functions that build the line, applied to names and hosts drawn from
\* small alphabets.

\* the strings over the alphabet, up to the length n
RECURSIVE Strings(_, _)
Strings(alphabet, n) ==
    IF n = 0 THEN {<<>>}
    ELSE LET S == Strings(alphabet, n - 1)
         IN  S \cup {Append(str, c) : str \in S, c \in alphabet}

\* database and user names: a letter, the double quote, the space
Names == Strings({"a", "\"", " "}, MaxStrLen)

\* hosts: the four kinds, and the strings over the characters they are made of
Hosts ==
    {Str_v4, Str_v6, Str_cidr, Str_hostname}
    \cup (Strings({"1", ".", ":", "/", "d"}, MaxStrLen) \ {<<>>})

\* pghba.c:218-242: append_hostname_or_cidr on an empty buffer
RenderHost ==
    /\ rOp = "none"
    /\ rOp' = "host"
    /\ rOut' = append_hostname_or_cidr(rIn.host)
    /\ UNCHANGED rIn

\* pghba.c:253-277: escape_hba_string
RenderEscape ==
    /\ rOp = "none"
    /\ rOp' = "escape"
    /\ rOut' = escape_hba_string(rIn.name)
    /\ UNCHANGED rIn

\* pghba.c:64-90: the whole line, the name being the database and the user
\* (a name that is not the empty string: the fields of a rule are not empty)
RenderLine ==
    /\ rOp = "none" /\ rIn.name # <<>>
    /\ rOp' = "line"
    /\ rOut' = HbaLine(FALSE, "HBA_DATABASE_DBNAME", rIn.name, rIn.name,
                       rIn.host, Str_trust)
    /\ UNCHANGED rIn

notRenderVars == <<file0, fetchedId, engError, topoVars>>

InitRender ==
    /\ HbaInit /\ file = <<>> /\ EngInit({})
    /\ file0 = file /\ IdentityInit /\ TopologyInit
    /\ rIn \in [name : Names, host : Hosts]
    /\ rOp = "none" /\ rOut = <<>>

NextRender ==
    \/ RenderHost /\ UNCHANGED <<hbaVars, engVars, notRenderVars>>
    \/ RenderEscape /\ UNCHANGED <<hbaVars, engVars, notRenderVars>>
    \/ RenderLine /\ UNCHANGED <<hbaVars, engVars, notRenderVars>>

SpecRender == InitRender /\ [][NextRender]_vars

\* ------------------------------------------------------ the topology model
\*
\* archiver.h holds the formations in fixed-capacity arrays; the snapshot the
\* coordinator returns is unbounded and is validated where it is decoded.

MAX_ARCHIVER_GROUP_COUNT == 12

MAX_ARCHIVER_FORMATION_COUNT == 12

\* GroupArray of n groups: the group ids 0 .. n-1
GroupArray(n) == [i \in 1..n |-> i - 1]

\* a GroupArray that holds a group id twice
DuplicateGroups == <<0, 1, 0>>

\* the group lists of the snapshots: short, full, over the maximum, duplicate
GroupLists ==
    {GroupArray(n) : n \in {1, MAX_ARCHIVER_GROUP_COUNT}}
    \cup {GroupArray(MAX_ARCHIVER_GROUP_COUNT + e) : e \in 1..MaxExcess}
    \cup {DuplicateGroups}

\* the formation counts of the snapshots
FormationCounts ==
    {0, 1, 2, MAX_ARCHIVER_FORMATION_COUNT}
    \cup {MAX_ARCHIVER_FORMATION_COUNT + e : e \in 1..MaxExcess}

\* ArchiverFormation: the name and the groups
ArchiverFormation(name, groups) == [formation |-> name, groups |-> groups]

\* a snapshot of n formations; the last one holds the given groups, and with
\* dup the last formation repeats the name of the first
Snapshot(n, groups, dup) ==
    [i \in 1..n |->
        ArchiverFormation(IF dup /\ i = n THEN <<"f", 1>> ELSE <<"f", i>>,
                          IF i = n THEN groups ELSE GroupArray(1))]

Snapshots ==
    {Snapshot(n, g, dup) : n \in FormationCounts, g \in GroupLists, dup \in BOOLEAN}

\* no element occurs twice in the sequence
Distinct(seq) == \A i, j \in 1..Len(seq) : seq[i] = seq[j] => i = j

\* TopologyModel.validate
validate_NoBounds(snapshot) ==
    /\ Distinct([i \in 1..Len(snapshot) |-> snapshot[i].formation])
    /\ \A i \in 1..Len(snapshot) : Distinct(snapshot[i].groups)

validate(snapshot) ==
    /\ Len(snapshot) <= MAX_ARCHIVER_FORMATION_COUNT
    /\ \A i \in 1..Len(snapshot) :
          Len(snapshot[i].groups) <= MAX_ARCHIVER_GROUP_COUNT
    /\ Distinct([i \in 1..Len(snapshot) |-> snapshot[i].formation])
    /\ \A i \in 1..Len(snapshot) : Distinct(snapshot[i].groups)

\* a fetched snapshot is decoded into Archiver.formations: adopted whole when
\* it is valid, rejected whole when it is not
TopologyDecode(snapshot) ==
    /\ offered' = snapshot
    /\ adopted' = formations
    /\ IF validate(snapshot)
       THEN formations' = snapshot /\ topoError' = "ok"
       ELSE formations' = formations /\ topoError' = "ValidationError"
    /\ UNCHANGED <<hbaVars, engVars, file0, fetchedId, engError, renderVars>>

\* the engine starts a run in between, which leaves the formations alone
TopologyRun == keeper_pg_init /\ UNCHANGED auxVars

InitTopology == HbaInit /\ file = <<>> /\ EngInit({}) /\ AuxInit

NextTopology ==
    \/ \E snapshot \in Snapshots : TopologyDecode(snapshot)
    \/ TopologyRun
    \/ Interrupt /\ UNCHANGED auxVars

SpecTopology == InitTopology /\ [][NextTopology]_vars

\* ------------------------------------------------------------- properties

\* the call of process p has returned
Returned(p) == pc[p] = "done"

\* the call made the named call to the outside
Called(p, name) == \E i \in 1..Len(trace[p]) : trace[p][i][1] = name

\* the named call to the outside failed
Failed(p, name) == \E i \in 1..Len(trace[p]) : trace[p][i] = <<name, FALSE>>

\* the call got as far as pghba_ensure_host_rule_exists, with a method that is
\* not the skip sentinel
RanEnsure(p) == ensRes[p] # NULL /\ ~SKIP_HBA(args[p].auth)

\* C1: two calls of pghba_ensure_host_rule_exists in succession with the same
\* arguments and a method that is not the skip sentinel, both returning true:
\* the file after the second call is the file after the first.
C1_IdempotentAppend ==
    ( /\ Returned("p1")
      /\ kind["p1"] = "ensure" /\ prev["p1"].kind = "ensure"
      /\ prev["p1"].args = args["p1"]
      /\ ~SKIP_HBA(args["p1"].auth)
      /\ prev["p1"].res = "true" /\ res["p1"] = "true" )
    => file = pre["p1"]

\* C2: with a single process, every step leaves the contents of the file as
\* they were or appends to them: the contents before are a prefix of the
\* contents after.
C2_AppendOnly == [][IsPrefix(file, file')]_vars

C2_Witness ==
    /\ Returned("p1") /\ calls["p1"] = 2
    /\ pre["p1"] # <<>>
    /\ ~Failed("p1", "write_file") /\ Called("p1", "write_file")
    /\ file # pre["p1"]

\* C3: when the file read holds the line at the start of the file or right
\* after a newline, wherever that is, the call (with no failure of read_file
\* or write_file) returns true and the file is unchanged.
C3_PresentNoOp ==
    ( /\ Returned("p1") /\ RanEnsure("p1")
      /\ ~Failed("p1", "read_file") /\ ~Failed("p1", "write_file")
      /\ AnchoredOccurrences(pre["p1"], line["p1"]) # {} )
    => (ensRes["p1"] = "true" /\ file = pre["p1"])

\* C4: when the line occurs in the file read, and only at places that are
\* neither the start of the file nor right after a newline, the line is not
\* taken as present: the file is written, and a call that returns true has
\* appended the line, the comment and a newline.
C4_AnchoredOnly ==
    ( /\ Returned("p1") /\ RanEnsure("p1")
      /\ ~Failed("p1", "read_file")
      /\ Occurrences(pre["p1"], line["p1"]) # {}
      /\ AnchoredOccurrences(pre["p1"], line["p1"]) = {} )
    => /\ Called("p1", "write_file")
       /\ ensRes["p1"] = "true" =>
            file = pre["p1"] \o line["p1"] \o HBA_LINE_COMMENT \o <<NL>>

C4_Witness ==
    /\ Returned("p1") /\ RanEnsure("p1") /\ ensRes["p1"] = "true"
    /\ Occurrences(pre["p1"], line["p1"]) # {}
    /\ AnchoredOccurrences(pre["p1"], line["p1"]) = {}
    /\ Len(file) > Len(pre["p1"])

\* C5: when the file holds no matching line, a call that returns true has
\* added exactly one line at the end of the file, the rendered line followed
\* by the comment, ended by a newline, and the lines before are unchanged;
\* whatever the contents were, also when their last line had no newline.
C5_AppendEffect ==
    ( /\ Returned("p1") /\ RanEnsure("p1") /\ ensRes["p1"] = "true"
      /\ AnchoredOccurrences(pre["p1"], line["p1"]) = {} )
    => /\ SplitLines(file) = SplitLines(pre["p1"]) \o <<line["p1"] \o HBA_LINE_COMMENT>>
       /\ file[Len(file)] = NL

\* C6: when the local address is found and its CIDR is not,
\* pghba_enable_lan_cidr leaves the file alone and does not return false,
\* whatever the authentication method.
C6_CidrFailureIsSkip ==
    ( /\ Returned("p1") /\ kind["p1"] = "lan"
      /\ Failed("p1", "fetchLocalCIDR") )
    => /\ res["p1"] # "false"
       /\ ~Called("p1", "read_file") /\ ~Called("p1", "write_file")

Reloads(p) == {i \in 1..Len(trace[p]) : trace[p][i][1] = "pgsql_reload_conf"}

\* C8: in a call of pghba_enable_lan_cidr the reload is asked for at most once,
\* and exactly when no pgdata is given, the method is not the skip sentinel and
\* pghba_ensure_host_rule_exists has returned true; it comes after the file was
\* read; with a pgdata there is no reload and the server is not asked the path.
C8_ReloadOrdering ==
    kind["p1"] = "lan" =>
        /\ Cardinality(Reloads("p1")) <= 1
        /\ \A i \in Reloads("p1") :
              /\ i = Len(trace["p1"])
              /\ args["p1"].pgdata = NULL
              /\ ~SKIP_HBA(args["p1"].auth)
              /\ ensRes["p1"] = "true"
              /\ \E j \in 1..(i - 1) : trace["p1"][j] = Ev_read(TRUE)
        /\ ( /\ Returned("p1") /\ args["p1"].pgdata = NULL
             /\ ~SKIP_HBA(args["p1"].auth) /\ ensRes["p1"] = "true" )
           => Reloads("p1") # {}
        /\ args["p1"].pgdata # NULL =>
              /\ Reloads("p1") = {}
              /\ ~Called("p1", "pgsql_get_hba_file_path")

C8_Witness ==
    /\ Returned("p1") /\ kind["p1"] = "lan"
    /\ Called("p1", "write_file") /\ Reloads("p1") # {}
    /\ prev["p1"].kind = "lan" /\ prev["p1"].args.pgdata # NULL

\* the records the coordinator holds for this node
ThisRecords == {r \in coord : r.node = ThisNode}

\* C9: a run that finds a persisted NodeState (the run before it was
\* interrupted after persisting it) enters at REGISTERED-PENDING-SYNC, makes no
\* register call, and ends in SYNCHRONIZED once the grant has returned true.
C9_Resumability ==
    resumed =>
        /\ regCalls = 0
        /\ engState \in {"REGISTERED-PENDING-SYNC", "SYNCHRONIZED", "FAILED"}
        /\ (running /\ pc["p1"] = "idle") => engState = "REGISTERED-PENDING-SYNC"
        /\ engState = "SYNCHRONIZED" => (pc["p1"] = "done" /\ res["p1"] = "true")
        /\ engState = "FAILED" => (pc["p1"] = "done" /\ res["p1"] = "false")
        /\ (~running /\ pc["p1"] = "done" /\ res["p1"] = "true")
              => engState = "SYNCHRONIZED"

\* the first run registered and persisted, and made no grant call; the second
\* run made the grant, which wrote the rule, and ended in SYNCHRONIZED
C9_Witness ==
    /\ resumed /\ ~running /\ runs = 2 /\ regCalls = 0
    /\ calls["p1"] = 1 /\ Called("p1", "write_file")
    /\ engState = "SYNCHRONIZED"

\* C10: whatever the retries and the interruptions, every register call of
\* this node that returned gave the same nodeId, the coordinator holds at most
\* one record for the node, exactly one once a call was accepted, and the
\* nodeId persisted is the one returned.
C10_RegistrationIdempotent ==
    /\ Cardinality(regReturned) <= 1
    /\ Cardinality(ThisRecords) <= 1
    /\ regAccepted > 0 => Cardinality(ThisRecords) = 1
    /\ \A id \in regReturned : id \in MonitorNodeIds(coord, ThisNode)
    /\ nodeState # NoNodeId => nodeState \in regReturned
    /\ pendingId # NoNodeId => pendingId \in regReturned

\* the coordinator accepted three register calls of the node: one whose reply
\* was lost, one followed by an interruption before the nodeId was persisted,
\* and the one that was persisted
C10_Witness ==
    /\ regAccepted = 3 /\ runs = 3
    /\ nodeState # NoNodeId /\ nodeState \in regReturned
    /\ Cardinality(ThisRecords) = 1
    /\ coord # ThisRecords

\* C11: a reconcile step never changes a nodeId that NodeState holds; an absent
\* nodeId adopts the identity the coordinator returned; a fetched identity
\* that differs from the persisted one is reported as a StateIntegrityError,
\* the engine goes to FAILED and never leaves it, and the NodeState stays.
C11_IdentityNeverOverwritten ==
    [][ /\ nodeState # NoNodeId => nodeState' = nodeState
        /\ (nodeState = NoNodeId /\ nodeState' # NoNodeId)
              => nodeState' \in {pendingId, fetchedId'}
        /\ (fetchedId' # fetchedId /\ fetchedId' # NoNodeId
              /\ nodeState # NoNodeId /\ fetchedId' # nodeState)
              => /\ engError' = "StateIntegrityError"
                 /\ engState' = "FAILED"
                 /\ nodeState' = nodeState
        /\ engError' = "StateIntegrityError" => engState' = "FAILED"
        /\ engState = "FAILED" => engState' = "FAILED" ]_vars

\* a run found that the coordinator reports another identity, and failed
C11_Witness ==
    /\ engError = "StateIntegrityError" /\ engState = "FAILED"
    /\ nodeState # NoNodeId /\ fetchedId # NoNodeId /\ fetchedId # nodeState
    /\ nodeState \in regReturned

\* the snapshot has more formations, or more groups in a formation, than fit
OverBounds(snapshot) ==
    \/ Len(snapshot) > MAX_ARCHIVER_FORMATION_COUNT
    \/ \E i \in 1..Len(snapshot) :
          Len(snapshot[i].groups) > MAX_ARCHIVER_GROUP_COUNT

\* C12: a snapshot with more than 12 formations, or more than 12 groups in a
\* formation, is rejected with a ValidationError and the FormationArray is
\* what it was before; the FormationArray never holds more than 12 formations
\* or more than 12 groups in a formation.
C12_BoundEnforcement ==
    /\ Len(formations) <= 12
    /\ \A i \in 1..Len(formations) : Len(formations[i].groups) <= 12
    /\ (topoError # "none" /\ OverBounds(offered))
          => topoError = "ValidationError"
    /\ topoError = "ValidationError" => formations = adopted

\* a snapshot of 13 formations was rejected when 12 formations were held
C12_Witness ==
    /\ topoError = "ValidationError"
    /\ Len(offered) = 13 /\ Len(formations) = 12 /\ formations = adopted

C19_SkipUntouched ==
    args["p1"].auth = Str_skip
      => /\ Returned("p1")
         /\ ~Called("p1", "read_file")
         /\ ~Called("p1", "write_file")
         /\ ~Called("p1", "pgsql_reload_conf")
         /\ file = pre["p1"]
         /\ ensRes["p1"] \in {NULL, "true"}
         /\ kind["p1"] = "ensure"
               => ensRes["p1"] = "true" /\ line["p1"] = RuleLine(args["p1"])
         /\ (kind["p1"] = "lan" /\ ~Failed("p1", "findHostnameLocalAddress")
               /\ ~Failed("p1", "fetchLocalCIDR")
               /\ ~Failed("p1", "pgsql_get_hba_file_path"))
               => ensRes["p1"] = "true" /\ res["p1"] = "true" /\ line["p1"] # <<>>

\* a grant on a live server with the skip sentinel returned true
C19_Witness ==
    /\ Returned("p1") /\ kind["p1"] = "lan" /\ args["p1"].auth = Str_skip
    /\ args["p1"].pgdata = NULL /\ ensRes["p1"] = "true" /\ res["p1"] = "true"

\* the index of the last space of s before the index n, 0 when there is none
LastSpaceBefore(s, n) ==
    LET I == {i \in 1..(n - 1) : s[i] = " "}
    IN  IF I = {} THEN 0 ELSE CHOOSE i \in I : \A j \in I : j <= i

\* the host field of a rendered line: the field before the last one
HostField(ln) ==
    LET j == LastSpaceBefore(ln, Len(ln) + 1)
        i == LastSpaceBefore(ln, j)
    IN  SubSeq(ln, i + 1, j - 1)

\* the host field the host is to be rendered as
ExpectedHostField(host) ==
    IF IsIPv4Literal(host) THEN host \o <<"/", "3", "2">>
    ELSE IF IsIPv6Literal(host) THEN host \o <<"/", "1", "2", "8">>
    ELSE host

\* C17: the host field is the host followed by /32 for an IPv4 literal, by /128
\* for an IPv6 literal, and the host unchanged otherwise, a CIDR included; this
\* is the host field of the whole rendered line as well.
C17_HostField ==
    /\ rOp = "host" => rOut = ExpectedHostField(rIn.host)
    /\ rOp = "line" => HostField(rOut) = ExpectedHostField(rIn.host)
    /\ (rOp \in {"host", "line"} /\ rIn.host = Str_cidr)
          => (IF rOp = "host" THEN rOut ELSE HostField(rOut)) = Str_cidr

\* an IPv6 literal was rendered into a line
C17_Witness ==
    /\ rOp = "line" /\ rIn.host = Str_v6
    /\ HostField(rOut) = Str_v6 \o <<"/", "1", "2", "8">>

\* the index where the quoted field that begins at s[i] ends: the first
\* double quote after i that is not the first of a pair; 0 when there is none
RECURSIVE QuotedEnd(_, _)
QuotedEnd(s, i) ==
    IF i + 1 > Len(s) THEN 0
    ELSE IF s[i + 1] # "\"" THEN QuotedEnd(s, i + 1)
    ELSE IF i + 2 <= Len(s) /\ s[i + 2] = "\"" THEN QuotedEnd(s, i + 2)
    ELSE i + 1

\* a string with each pair of double quotes replaced by one double quote; a
\* double quote that is not in a pair is kept and marked
RECURSIVE UnescapeBody(_)
UnescapeBody(body) ==
    IF body = <<>> THEN <<>>
    ELSE IF Head(body) # "\"" THEN <<Head(body)>> \o UnescapeBody(Tail(body))
    ELSE IF Len(body) >= 2 /\ body[2] = "\""
         THEN <<"\"">> \o UnescapeBody(SubSeq(body, 3, Len(body)))
    ELSE <<"\"", "unpaired">> \o UnescapeBody(Tail(body))

\* the un-escaping of a quoted field: the outer quotes are stripped
Unescape(quoted) ==
    IF Len(quoted) < 2 \/ quoted[1] # "\"" \/ quoted[Len(quoted)] # "\""
    THEN <<"unquoted">>
    ELSE UnescapeBody(SubSeq(quoted, 2, Len(quoted) - 1))

\* C18: escape_hba_string gives the name between double quotes with each inner
\* double quote doubled; un-escaping gives the name back; the escaped length
\* is the length of the name plus its double quotes plus 2. In a rendered line
\* the database and user fields are read back as the name.
C18_EscapeRoundTrip ==
    /\ rOp = "escape" =>
          /\ rOut[1] = "\"" /\ rOut[Len(rOut)] = "\""
          /\ QuotedEnd(rOut, 1) = Len(rOut)
          /\ Unescape(rOut) = rIn.name
          /\ Len(rOut) = Len(rIn.name) + Count(rIn.name, "\"") + 2
          /\ Count(rOut, "\"") = 2 * Count(rIn.name, "\"") + 2
    /\ rOp = "line" =>
          LET d == QuotedEnd(rOut, 6)
              u == QuotedEnd(rOut, d + 2)
          IN  /\ Unescape(SubSeq(rOut, 6, d)) = rIn.name
              /\ Unescape(SubSeq(rOut, d + 2, u)) = rIn.name
              /\ rOut[u + 1] = " "

\* a name holding double quotes and a space was escaped
C18_Witness ==
    /\ rOp = "escape" /\ rIn.name = <<"\"", " ", "\"">>
    /\ rOut = <<"\"", "\"", "\"", " ", "\"", "\"", "\"">>

\* the line occurs in the contents as a line: at the start or after a newline
HasLine(contents, ln) == AnchoredOccurrences(contents, ln) # {}

\* C14: the result of pghba_ensure_host_rule_exists after a failed read_file
\* differs from its result after a failed write_file, and the result of
\* pghba_enable_lan_cidr after a failed reload differs from its result after
\* a failed edit of the file.
C14_DistinctOutcomes ==
    /\ (Returned("p1") /\ Returned("p2")
          /\ Failed("p1", "read_file") /\ Failed("p2", "write_file"))
          => ensRes["p1"] # ensRes["p2"]
    /\ (Returned("p1") /\ Returned("p2") /\ kind["p1"] = "lan" /\ kind["p2"] = "lan"
          /\ Failed("p1", "pgsql_reload_conf")
          /\ (Failed("p2", "read_file") \/ Failed("p2", "write_file")))
          => res["p1"] # res["p2"]

\* the call of the process wrote the file
Wrote(p) == \E i \in 1..Len(trace[p]) : trace[p][i] = <<"write_file", TRUE>>

\* C15 as claimed: with two processes, a rule line that the file holds is held
\* by the file after every step.
C15_NoLineLost ==
    [][\A r \in ConcRules :
          HasLine(file, RuleLine(r)) => HasLine(file', RuleLine(r))]_vars

\* C15: every write puts the contents its writer read, followed by the
\* writer's line, in the place of the file: the lines the writer read are
\* kept, and the file only grows when it is still what the writer read. (A
\* line the other process wrote after that read is lost: the last writer wins.)
C15_WriterKeepsWhatItRead ==
    [][file' # file =>
         \E p \in Procs :
            /\ pc[p] = "write" /\ pc'[p] # "write"
            /\ IsPrefix(buf[p], file')
            /\ Len(buf[p]) + 1 \in Occurrences(file', line[p])
            /\ \A r \in ConcRules :
                  HasLine(buf[p], RuleLine(r)) => HasLine(file', RuleLine(r))
            /\ buf[p] = file => IsPrefix(file, file')]_vars

\* both processes wrote their lines, and the line of the first is lost
C15_Witness ==
    /\ Returned("p1") /\ Returned("p2") /\ calls["p1"] = 1 /\ calls["p2"] = 1
    /\ Wrote("p1") /\ Wrote("p2") /\ line["p1"] # line["p2"]
    /\ ~HasLine(file, line["p1"]) /\ HasLine(file, line["p2"])

\* the contents are empty or end with a newline
Terminated(contents) == contents = <<>> \/ contents[Len(contents)] = NL

\* C16: the file being empty or newline-terminated at first, once the two
\* processes have made their interleaved calls for two different lines and
\* each has then run a further pass for its line that returned true, the
\* file holds each of the two lines exactly once at a line start.
C16_SelfHealing ==
    (/\ Terminated(file0)
     /\ Returned("p1") /\ Returned("p2")
     /\ calls["p1"] >= 2 /\ calls["p2"] >= 2
     /\ ensRes["p1"] = "true" /\ ensRes["p2"] = "true"
     /\ line["p1"] # line["p2"])
      => \A p \in Procs : Cardinality(AnchoredOccurrences(file, line[p])) = 1

\* C20: the file being empty or newline-terminated at first and not holding
\* the line, when both processes run pghba_ensure_host_rule_exists for that
\* same line the file never holds it twice, and once both have returned, one
\* of them with true, the file holds it exactly once, at a line start.
C20_NoDuplicateFromRace ==
    (/\ Terminated(file0)
     /\ line["p1"] # <<>> /\ line["p1"] = line["p2"]
     /\ strstr(file0, line["p1"]) = 0)
      => /\ Cardinality(Occurrences(file, line["p1"])) <= 1
         /\ (Returned("p1") /\ Returned("p2")
               /\ (ensRes["p1"] = "true" \/ ensRes["p2"] = "true"))
               => Cardinality(AnchoredOccurrences(file, line["p1"])) = 1

\* both processes read the file before either wrote, and both wrote the line
C20_Witness ==
    /\ file0 = <<"x", NL>> /\ line["p1"] # <<>> /\ line["p1"] = line["p2"]
    /\ Returned("p1") /\ Returned("p2") /\ calls["p1"] = 1 /\ calls["p2"] = 1
    /\ Wrote("p1") /\ Wrote("p2") /\ buf["p1"] = file0 /\ buf["p2"] = file0
    /\ Cardinality(AnchoredOccurrences(file, line["p1"])) = 1

====
